---- MODULE Spec2Model ----
(***************************************************************************)
(* Metadata cache synchronisation of the backup CLI                        *)
(* (storage/backup/backup-cli/src/metadata/cache.rs): sync_and_load mirrors *)
(* the remote catalog of metadata files into a local cache directory and   *)
(* loads every cached file into one MetadataView.                          *)
(***************************************************************************)
EXTENDS Integers, Sequences, FiniteSets, TLC

(* ------------------------------------------------------------------ *)
(* Bounds                                                              *)
(* ------------------------------------------------------------------ *)

\* Largest value of the concurrent_downloads argument that is explored.
MaxConcurrent == 2

\* Number of sync_and_load calls followed, one after the other.
MaxCalls == 2

(* ------------------------------------------------------------------ *)
(* The remote catalog: file handles and the byte streams behind them   *)
(* ------------------------------------------------------------------ *)

\* File handles the backup coordinators may have written to the catalog.
DataHandles == {"A", "B", "C"}

\* File handle of the identity metadata file written by initialize_identity.
IdentityHandles == {"I"}

FileHandles == DataHandles \cup IdentityHandles

NL == "\n"

\* The bytes behind a file handle, as a sequence of tokens: a token is a
\* newline, one serialized Metadata record, or bytes that are not JSON.
\* "C" holds an empty line between its two records and no final newline.
StreamOf(h) ==
    CASE h = "A" -> <<"a1", NL, "a2", NL>>
      [] h = "B" -> <<"b1", NL>>
      [] h = "C" -> <<"c1", NL, NL, "c2">>
      [] h = "I" -> <<"id1", NL>>

\* Tokens moved by one read/write turn of tokio::io::copy.
ChunkTokens == 2

\* Tokens that serde_json parses as one Metadata record.
Records == {"a1", "a2", "b1", "c1", "c2", "id1"}

(* ------------------------------------------------------------------ *)
(* FileHandleHash::file_handle_hash                                    *)
(* ------------------------------------------------------------------ *)

\* Width of the u64 returned by Hasher::finish, in hexadecimal digits.
U64Nibbles == 16

HexDigit == <<"0", "1", "2", "3", "4", "5", "6", "7",
              "8", "9", "a", "b", "c", "d", "e", "f">>

\* hasher.finish() for the sampled handles: a u64 as 16 nibbles, most
\* significant first.  "A" has a leading zero nibble; "B" and "C" collide.
HasherFinish(h) ==
    CASE h = "A" -> <<0,10,1,11,2,12,3,13,4,14,5,15,6,0,7,1>>
      [] h = "B" -> <<11,5,0,0,1,2,3,4,5,6,7,8,9,10,11,12>>
      [] h = "C" -> <<11,5,0,0,1,2,3,4,5,6,7,8,9,10,11,12>>
      [] h = "I" -> <<1,13,1,13,1,13,1,13,1,13,1,13,1,13,1,13>>

RECURSIVE HexFrom(_, _)
HexFrom(v, i) ==
    IF i > U64Nibbles THEN "" ELSE HexDigit[v[i] + 1] \o HexFrom(v, i + 1)

RECURSIVE FirstNonZero(_, _)
FirstNonZero(v, i) ==
    IF i >= U64Nibbles \/ v[i] # 0 THEN i ELSE FirstNonZero(v, i + 1)

\* format!("{:016x}", n): all sixteen nibbles, leading zeros included.
FormatPaddedHex(v) == HexFrom(v, 1)

\* format!("{:x}", n): lower-case hexadecimal without padding, so leading
\* zero nibbles are not printed (and zero prints as "0").
FormatLowerHex(v) == HexFrom(v, FirstNonZero(v, 1))

file_handle_hash(h) == FormatLowerHex(HasherFinish(h))

\* The cache key of every handle, computed once.
KeyOf == [h \in FileHandles |-> file_handle_hash(h)]

\* A temporary name without the leading dot.
local_tmp_file_bare(h) == h

\* cache_dir.join(format!(".{}", h))
local_tmp_file(h) == "." \o h

(* ------------------------------------------------------------------ *)
(* Pure helpers                                                        *)
(* ------------------------------------------------------------------ *)

Range(s) == {s[i] : i \in 1..Len(s)}
Min(a, b) == IF a < b THEN a ELSE b

\* All orders in which a set may be iterated (HashSet iteration order).
Orders(S) == {s \in [1..Cardinality(S) -> S] : Range(s) = S}

\* f with the entry for k removed / set.
Without(f, k) == [x \in DOMAIN f \ {k} |-> f[x]]
With(f, k, v) == [x \in DOMAIN f \cup {k} |-> IF x = k THEN v ELSE f[x]]

\* Largest number of repeated entries in one remote listing.
MaxDuplicates == 1

\* What list_metadata_files may return for a catalog holding the handles S:
\* every handle of S, in any order, possibly with repeated entries.
ListingsOf ==
    [S \in SUBSET FileHandles |->
        UNION {{l \in [1..n -> S] : Range(l) = S} :
               n \in Cardinality(S)..(Cardinality(S) + MaxDuplicates)}]

\* remote_file_handles.into_iter().map(|fh| (fh.file_handle_hash(), fh))
\*     .collect::<HashMap>(): a later entry replaces an earlier one.
RECURSIVE CollectByHash(_, _)
CollectByHash(l, m) ==
    IF l = <<>> THEN m
    ELSE CollectByHash(Tail(l), With(m, KeyOf[Head(l)], Head(l)))

EmptyMap == [x \in {} |-> x]

\* str::lines(): the text split at newlines; a final newline does not start
\* another line.
RECURSIVE SplitLines(_, _, _)
SplitLines(text, cur, acc) ==
    IF text = <<>> THEN (IF cur = <<>> THEN acc ELSE Append(acc, cur))
    ELSE IF Head(text) = NL THEN SplitLines(Tail(text), <<>>, Append(acc, cur))
    ELSE SplitLines(Tail(text), Append(cur, Head(text)), acc)

IsNonEmpty(line) == line # <<>>
lines_skipping_empty(text) == SelectSeq(SplitLines(text, <<>>, <<>>), IsNonEmpty)

lines(text) == SplitLines(text, <<>>, <<>>)

\* serde_json::from_str::<Metadata>(line) succeeds exactly on one record;
\* an empty line is an error (EOF while parsing a value).
ParseOk(line) == Len(line) = 1 /\ line[1] \in Records

\* load_metadata_lines: Ok(records) when every line parses, else Err.
load_metadata_lines_ok(text) == \A i \in 1..Len(lines(text)) : ParseOk(lines(text)[i])
load_metadata_lines(text) == [i \in 1..Len(lines(text)) |-> lines(text)[i][1]]

(* ------------------------------------------------------------------ *)
(* State                                                               *)
(* ------------------------------------------------------------------ *)

VARIABLES
    remote,               \* handles held by the remote catalog (BackupStorage)
    fs,                   \* the cache directory: file name |-> content
    pc,                   \* where the sync_and_load call stands
    concurrent_downloads, \* argument of the call
    local_hashes,         \* names listed in the cache directory
    by_hash,              \* remote_file_handle_by_hash
    stale_left,           \* stale_local_hashes not yet visited by the loop
    new_remote_hashes,    \* Vec of the keys to download
    up_to_date,           \* up_to_date_local_hashes in iteration order
    task,                 \* position of each download future
    yielded,              \* results collected from the buffered stream
    loaded,               \* files already loaded by the final loop
    metadata_vec,         \* records loaded so far; the view when pc = "done"
    err,                  \* the step whose error the call returned
    fs0,                  \* cache directory when the call started
    remote0,              \* remote catalog when the call started
    first_empty,          \* the first remote listing was empty
    n_list,               \* list_metadata_files calls of this call
    n_save,               \* save_metadata_line calls of this call
    n_open,               \* open_for_read calls of this call
    n_removed,            \* remove_file successes of this call
    n_tmp,                \* temporary files created by this call
    processed,            \* the `processed` fields of the download log lines, in order
    n_loaded_opens,       \* cache files opened by the loader in this call
    prev_ok_same,         \* the previous call succeeded and the catalog is as it left it
    calls,                \* calls started so far
    request,              \* GET request the backup service is serving
    response,             \* what the client of that request got
    requests,             \* rows of the faucet's requests table
    now,                  \* get_current_time_secs()
    check_pc,             \* where each faucet request stands
    data,                 \* CheckerData and dry_run of each faucet request
    rows_len,             \* rows.len() read by each check
    result,               \* what check returned to each request
    checks,               \* check calls started so far
    reaper_pc,            \* where clear_old_rows stands
    error_count,          \* error_count of clear_old_rows
    failed_in_a_row       \* deletes that failed since the last one that succeeded

\* The variables of the metadata cache.
cache == <<remote, fs, pc, concurrent_downloads, local_hashes, by_hash, stale_left,
           new_remote_hashes, up_to_date, task, yielded, loaded, metadata_vec, err,
           fs0, remote0, first_empty, n_list, n_save, n_open, n_removed, n_tmp, processed,
           n_loaded_opens, prev_ok_same, calls>>

\* The variables of the backup service.
service == <<request, response>>

\* The variables of the faucet's rate limiter.
faucet == <<requests, now, check_pc, data, rows_len, result, checks, reaper_pc,
            error_count, failed_in_a_row>>

vars == <<cache, service, faucet>>

\* Variables of the call that only its own steps change.
locals == <<concurrent_downloads, local_hashes, by_hash, stale_left,
            new_remote_hashes, up_to_date, task, yielded, loaded, metadata_vec>>
observed == <<fs0, remote0, first_empty, n_list, n_save, n_open, n_removed, n_tmp, processed,
              n_loaded_opens, prev_ok_same, calls>>

Terminal == {"done", "failed", "crashed"}
Resting == Terminal \cup {"idle"}

remote_hashes == DOMAIN by_hash

\* local_hashes.difference(&remote_hashes)
stale_swapped == remote_hashes \ local_hashes
stale_all == local_hashes
stale_local_hashes == local_hashes \ remote_hashes

\* remote_hashes.difference(&local_hashes)
missing_all == remote_hashes
missing_none == {}
missing_hashes == remote_hashes \ local_hashes

\* local_hashes.intersection(&remote_hashes)
current_hashes == local_hashes \cap remote_hashes

num_new_files == Len(new_remote_hashes)

\* Cache directories a call may find: any mix of committed files of
\* earlier runs (temporary files appear through interrupted runs).
InitialCaches ==
    {[k \in K |-> IF k = KeyOf["A"] THEN StreamOf("A") ELSE StreamOf("B")] :
        K \in SUBSET {KeyOf["A"], KeyOf["B"]}}

\* The variables of a call before it starts.
NoCall ==
    /\ local_hashes = {}
    /\ by_hash = EmptyMap
    /\ stale_left = {}
    /\ new_remote_hashes = <<>>
    /\ up_to_date = <<>>
    /\ task = <<>>
    /\ yielded = 0
    /\ loaded = 0
    /\ metadata_vec = <<>>
    /\ err = "none"
    /\ first_empty = FALSE
    /\ n_list = 0
    /\ n_save = 0
    /\ n_open = 0
    /\ n_removed = 0
    /\ n_tmp = 0
    /\ processed = <<>>
    /\ n_loaded_opens = 0

\* The same, as the effect of a step.
ResetCall ==
    /\ local_hashes' = {}
    /\ by_hash' = EmptyMap
    /\ stale_left' = {}
    /\ new_remote_hashes' = <<>>
    /\ up_to_date' = <<>>
    /\ task' = <<>>
    /\ yielded' = 0
    /\ loaded' = 0
    /\ metadata_vec' = <<>>
    /\ err' = "none"
    /\ first_empty' = FALSE
    /\ n_list' = 0
    /\ n_save' = 0
    /\ n_open' = 0
    /\ n_removed' = 0
    /\ n_tmp' = 0
    /\ processed' = <<>>
    /\ n_loaded_opens' = 0

\* Faucet requests served side by side.
Clients == {"c1", "c2"}

\* A request that carries nothing yet.
NoData == [source_ip |-> "", receiver |-> "", amount |-> "",
           time_request_received_secs |-> 0, dry_run |-> FALSE]

\* No request has reached the service.
NoRequest == [name |-> "", params |-> <<<<"-">>>>]
NoResponse == "none"

Init ==
    /\ remote \in SUBSET DataHandles
    /\ fs \in InitialCaches
    /\ pc = "idle"
    /\ NoCall
    /\ concurrent_downloads = 1
    /\ fs0 = fs
    /\ remote0 = remote
    /\ prev_ok_same = FALSE
    /\ calls = 0
    /\ request = NoRequest
    /\ response = NoResponse
    /\ requests = {}
    /\ now = 1
    /\ check_pc = [p \in Clients |-> "idle"]
    /\ data = [p \in Clients |-> NoData]
    /\ rows_len = [p \in Clients |-> 0]
    /\ result = [p \in Clients |-> "none"]
    /\ checks = 0
    /\ reaper_pc = "unspawned"
    /\ error_count = 0
    /\ failed_in_a_row = 0

\* return Err(..) from the step named e.
Fail(e) == pc' = "failed" /\ err' = e

(* ------------------------------------------------------------------ *)
(* sync_and_load, step by step                                         *)
(* ------------------------------------------------------------------ *)

\* A caller invokes sync_and_load(opt, storage, c).
StartSync ==
    /\ UNCHANGED <<service, faucet>>
    /\ pc \in Resting
    /\ calls < MaxCalls
    /\ calls' = calls + 1
    /\ pc' = "create_dir"
    /\ ResetCall
    /\ \E c \in 1..MaxConcurrent : concurrent_downloads' = c
    /\ prev_ok_same' = (pc = "done")
    /\ fs0' = fs
    /\ remote0' = remote
    /\ UNCHANGED <<remote, fs>>

\* create_dir_all(&cache_dir)
CreateDir ==
    /\ UNCHANGED <<service, faucet>>
    /\ pc = "create_dir"
    /\ \/ pc' = "list_local" /\ err' = err
       \/ Fail("create_dir_all")
    /\ UNCHANGED <<remote, fs, locals, observed>>

ListLocalSkipsDotFiles ==
    /\ UNCHANGED <<service, faucet>>
    /\ pc = "list_local"
    /\ \/ /\ local_hashes' = {n \in DOMAIN fs : \A h \in FileHandles : n # local_tmp_file(KeyOf[h])}
          /\ pc' = "list_remote"
          /\ err' = err
       \/ /\ Fail("read_dir")
          /\ UNCHANGED local_hashes
    /\ UNCHANGED <<remote, fs, concurrent_downloads, by_hash, stale_left,
                   new_remote_hashes, up_to_date, task, yielded, loaded,
                   metadata_vec, observed>>

\* read_dir and the collection of every entry's file name.
ListLocal ==
    /\ UNCHANGED <<service, faucet>>
    /\ pc = "list_local"
    /\ \/ /\ local_hashes' = DOMAIN fs
          /\ pc' = "list_remote"
          /\ err' = err
       \/ /\ Fail("read_dir")
          /\ UNCHANGED local_hashes
    /\ UNCHANGED <<remote, fs, concurrent_downloads, by_hash, stale_left,
                   new_remote_hashes, up_to_date, task, yielded, loaded,
                   metadata_vec, observed>>

ListedNeverBootstraps(l) == pc' = "diff" /\ by_hash' = CollectByHash(l, EmptyMap)
ListedAlwaysBootstraps(l) == pc' = "bootstrap" /\ by_hash' = by_hash

\* The listing l was returned: bootstrap when it is empty, else index it by hash.
Listed(l) ==
    IF l = <<>>
    THEN pc' = "bootstrap" /\ by_hash' = by_hash
    ELSE pc' = "diff" /\ by_hash' = CollectByHash(l, EmptyMap)

ListRemoteRetries ==
    /\ UNCHANGED <<service, faucet>>
    /\ pc = "list_remote"
    /\ n_list' = n_list + 1
    /\ \/ \E l \in ListingsOf[remote] :
            /\ Listed(l)
            /\ first_empty' = (l = <<>>)
            /\ err' = err
       \/ UNCHANGED <<pc, err, by_hash, first_empty>>
    /\ UNCHANGED <<remote, fs, concurrent_downloads, local_hashes, stale_left,
                   new_remote_hashes, up_to_date, task, yielded, loaded,
                   metadata_vec, fs0, remote0, n_save, n_open, n_removed, n_tmp, processed,
                   n_loaded_opens, prev_ok_same, calls>>

\* storage.list_metadata_files(), first call.
ListRemote ==
    /\ UNCHANGED <<service, faucet>>
    /\ pc = "list_remote"
    /\ n_list' = n_list + 1
    /\ \/ \E l \in ListingsOf[remote] :
            /\ Listed(l)
            /\ first_empty' = (l = <<>>)
            /\ err' = err
       \/ /\ Fail("list_metadata_files")
          /\ UNCHANGED <<by_hash, first_empty>>
    /\ UNCHANGED <<remote, fs, concurrent_downloads, local_hashes, stale_left,
                   new_remote_hashes, up_to_date, task, yielded, loaded,
                   metadata_vec, fs0, remote0, n_save, n_open, n_removed, n_tmp, processed,
                   n_loaded_opens, prev_ok_same, calls>>

InitializeIdentityErrorIgnored ==
    /\ UNCHANGED <<service, faucet>>
    /\ pc = "bootstrap"
    /\ n_save' = n_save + 1
    /\ pc' = "relist"
    /\ err' = err
    /\ \/ \E id \in IdentityHandles : remote' = remote \cup {id}
       \/ UNCHANGED remote
    /\ UNCHANGED <<fs, locals, fs0, remote0, first_empty, n_list, n_open,
                   n_removed, n_tmp, processed, n_loaded_opens, prev_ok_same, calls>>

\* initialize_identity: save_metadata_line of a new random identity.
InitializeIdentity ==
    /\ UNCHANGED <<service, faucet>>
    /\ pc = "bootstrap"
    /\ n_save' = n_save + 1
    /\ \/ \E id \in IdentityHandles :
            /\ remote' = remote \cup {id}
            /\ pc' = "relist"
            /\ err' = err
       \/ /\ Fail("initialize_identity")
          /\ UNCHANGED remote
    /\ UNCHANGED <<fs, locals, fs0, remote0, first_empty, n_list, n_open,
                   n_removed, n_tmp, processed, n_loaded_opens, prev_ok_same, calls>>

\* storage.list_metadata_files() after the bootstrap; the result is used as
\* it is, empty or not.
ReListRemote ==
    /\ UNCHANGED <<service, faucet>>
    /\ pc = "relist"
    /\ n_list' = n_list + 1
    /\ \/ \E l \in ListingsOf[remote] :
            /\ pc' = "diff"
            /\ by_hash' = CollectByHash(l, EmptyMap)
            /\ err' = err
       \/ /\ Fail("list_metadata_files")
          /\ UNCHANGED by_hash
    /\ UNCHANGED <<remote, fs, concurrent_downloads, local_hashes, stale_left,
                   new_remote_hashes, up_to_date, task, yielded, loaded,
                   metadata_vec, fs0, remote0, first_empty, n_save, n_open,
                   n_removed, n_tmp, processed, n_loaded_opens, prev_ok_same, calls>>

\* The three set operations on local_hashes and remote_hashes.
\* One download per remote handle that has no local file, without going
\* through the keys of the map.
DiffPerHandle ==
    /\ UNCHANGED <<service, faucet>>
    /\ pc = "diff"
    /\ stale_left' = stale_local_hashes
    /\ new_remote_hashes' \in
           {[i \in DOMAIN o |-> KeyOf[o[i]]] :
               o \in Orders({h \in remote : KeyOf[h] \notin local_hashes})}
    /\ up_to_date' \in Orders(current_hashes)
    /\ pc' = "evict"
    /\ UNCHANGED <<remote, fs, concurrent_downloads, local_hashes, by_hash, task,
                   yielded, loaded, metadata_vec, err, observed>>

\* The three sets of the diff and the order in which they are visited.
Diff ==
    /\ UNCHANGED <<service, faucet>>
    /\ pc = "diff"
    /\ stale_left' = stale_local_hashes
    /\ new_remote_hashes' \in Orders(missing_hashes)
    /\ up_to_date' \in Orders(current_hashes)
    /\ pc' = "evict"
    /\ UNCHANGED <<remote, fs, concurrent_downloads, local_hashes, by_hash, task,
                   yielded, loaded, metadata_vec, err, observed>>

EvictWrongPath ==
    /\ UNCHANGED <<service, faucet>>
    /\ pc = "evict"
    /\ \E h \in stale_left :
         \/ /\ stale_left' = stale_left \ {h}
            /\ n_removed' = n_removed + 1
            /\ UNCHANGED <<fs, pc, err>>
         \/ /\ Fail("remove_file")
            /\ UNCHANGED <<fs, stale_left, n_removed>>
    /\ UNCHANGED <<remote, concurrent_downloads, local_hashes, by_hash,
                   new_remote_hashes, up_to_date, task, yielded, loaded,
                   metadata_vec, fs0, remote0, first_empty, n_list, n_save,
                   n_open, n_tmp, processed, n_loaded_opens, prev_ok_same, calls>>

\* One turn of the loop over stale_local_hashes: remove_file(cache_dir.join(h))?
Evict ==
    /\ UNCHANGED <<service, faucet>>
    /\ pc = "evict"
    /\ \E h \in stale_left :
         \/ /\ h \in DOMAIN fs
            /\ fs' = Without(fs, h)
            /\ stale_left' = stale_left \ {h}
            /\ n_removed' = n_removed + 1
            /\ UNCHANGED <<pc, err>>
         \/ /\ Fail("remove_file")
            /\ UNCHANGED <<fs, stale_left, n_removed>>
    /\ UNCHANGED <<remote, concurrent_downloads, local_hashes, by_hash,
                   new_remote_hashes, up_to_date, task, yielded, loaded,
                   metadata_vec, fs0, remote0, first_empty, n_list, n_save,
                   n_open, n_tmp, processed, n_loaded_opens, prev_ok_same, calls>>

EvictDoneEarly ==
    /\ UNCHANGED <<service, faucet>>
    /\ pc = "evict"
    /\ task' = [i \in 1..num_new_files |-> "iter"]
    /\ pc' = "download"
    /\ UNCHANGED <<remote, fs, concurrent_downloads, local_hashes, by_hash,
                   stale_left, new_remote_hashes, up_to_date, yielded, loaded,
                   metadata_vec, err, observed>>

\* The loop is over: build one future per new remote hash.
EvictDone ==
    /\ UNCHANGED <<service, faucet>>
    /\ pc = "evict"
    /\ stale_left = {}
    /\ task' = [i \in 1..num_new_files |-> "iter"]
    /\ pc' = "download"
    /\ UNCHANGED <<remote, fs, concurrent_downloads, local_hashes, by_hash,
                   stale_left, new_remote_hashes, up_to_date, yielded, loaded,
                   metadata_vec, err, observed>>

(* ------------------------------------------------------------------ *)
(* The download futures under buffered_x(2 * c, c)                     *)
(* ------------------------------------------------------------------ *)

Tasks == 1..num_new_files
Running == {"opened", "copy"}
\* A future that returned Err, by the step that failed.
Errs == {"err_open", "err_create", "err_copy", "err_rename"}
Finished == {"ok"} \cup Errs

\* buffered_x(concurrent_downloads * 2 /* buffer size */,
\*            concurrent_downloads     /* concurrency */)
buffer_size == concurrent_downloads * 2
max_in_progress_swapped == concurrent_downloads * 2
max_in_progress == concurrent_downloads

\* Futures the stream has taken from the iterator: it takes the next one
\* whenever fewer than buffer_size results are outstanding.
Pulled == {i \in Tasks : i <= yielded + buffer_size}
\* Futures taken from the iterator whose result was not yet yielded.
Buffered == {i \in Pulled : i > yielded}
\* Futures being polled.
InFlight == {i \in Tasks : task[i] \in Running}

\* The oldest future not yet polled may start when it is buffered and fewer
\* than max_in_progress futures are in progress.
MayStart(i) ==
    /\ task[i] = "iter"
    /\ \A j \in 1..(i - 1) : task[j] # "iter"
    /\ i \in Pulled
    /\ Cardinality(InFlight) < max_in_progress

file_handle(i) == by_hash[new_remote_hashes[i]]
local_file(i) == new_remote_hashes[i]
tmp_file(i) == local_tmp_file(new_remote_hashes[i])

DownloadFrame ==
    UNCHANGED <<remote, concurrent_downloads, local_hashes, by_hash, stale_left,
                new_remote_hashes, up_to_date, yielded, loaded, metadata_vec,
                fs0, remote0, first_empty, n_list, n_save, n_removed,
                n_loaded_opens, prev_ok_same, calls, pc, err>>

\* storage.open_for_read(file_handle).await.err_notes(file_handle)?
OpenForRead(i) ==
    /\ UNCHANGED <<service, faucet>>
    /\ pc = "download"
    /\ i \in Tasks
    /\ MayStart(i)
    /\ n_open' = n_open + 1
    /\ \/ task' = [task EXCEPT ![i] = "opened"]
       \/ task' = [task EXCEPT ![i] = "err_open"]
    /\ UNCHANGED <<fs, n_tmp, processed>>
    /\ DownloadFrame

\* OpenOptions::new().write(true).create_new(true).open(&local_tmp_file)
CreateTmp(i) ==
    /\ UNCHANGED <<service, faucet>>
    /\ pc = "download"
    /\ i \in Tasks
    /\ task[i] = "opened"
    /\ \/ /\ tmp_file(i) \notin DOMAIN fs
          /\ fs' = With(fs, tmp_file(i), <<>>)
          /\ n_tmp' = n_tmp + 1
          /\ UNCHANGED processed
          /\ task' = [task EXCEPT ![i] = "copy"]
       \/ /\ task' = [task EXCEPT ![i] = "err_create"]
          /\ UNCHANGED <<fs, n_tmp, processed>>
    /\ UNCHANGED n_open
    /\ DownloadFrame

\* tokio::io::copy moves the next piece of the stream into the temp file.
CopyChunk(i) ==
    /\ UNCHANGED <<service, faucet>>
    /\ pc = "download"
    /\ i \in Tasks
    /\ task[i] = "copy"
    /\ tmp_file(i) \in DOMAIN fs
    /\ Len(fs[tmp_file(i)]) < Len(StreamOf(file_handle(i)))
    /\ fs' = [fs EXCEPT ![tmp_file(i)] =
                 SubSeq(StreamOf(file_handle(i)), 1,
                        Min(Len(@) + ChunkTokens, Len(StreamOf(file_handle(i)))))]
    /\ UNCHANGED <<task, n_open, n_tmp, processed>>
    /\ DownloadFrame

\* tokio::io::copy returns an error (read or write failure): `.await?`
CopyFail(i) ==
    /\ UNCHANGED <<service, faucet>>
    /\ pc = "download"
    /\ i \in Tasks
    /\ task[i] = "copy"
    /\ task' = [task EXCEPT ![i] = "err_copy"]
    /\ UNCHANGED <<fs, n_open, n_tmp, processed>>
    /\ DownloadFrame

CopyStarted(i) == tmp_file(i) \in DOMAIN fs

\* The copy reached the end of the stream.
CopyComplete(i) ==
    /\ tmp_file(i) \in DOMAIN fs
    /\ Len(fs[tmp_file(i)]) = Len(StreamOf(file_handle(i)))

\* info!(processed = i + 1, total = num_new_files, ..): i is the position of
\* the key in new_remote_hashes (enumerate), counted from zero in the code
\* and from one here.
logged_processed(i) == i

\* NUM_META_DOWNLOAD: set(0) before the futures are built, inc() after each
\* log line.
NUM_META_DOWNLOAD == Len(processed)

\* tokio::fs::rename(local_tmp_file, local_file).await? once the copy returned Ok
Rename(i) ==
    /\ UNCHANGED <<service, faucet>>
    /\ pc = "download"
    /\ i \in Tasks
    /\ task[i] = "copy"
    /\ CopyComplete(i)
    /\ \/ /\ fs' = With(Without(fs, tmp_file(i)), local_file(i), fs[tmp_file(i)])
          /\ task' = [task EXCEPT ![i] = "ok"]
          /\ processed' = Append(processed, logged_processed(i))
       \/ /\ task' = [task EXCEPT ![i] = "err_rename"]
          /\ UNCHANGED <<fs, processed>>
    /\ UNCHANGED <<n_open, n_tmp>>
    /\ DownloadFrame

CollectKeepsGoing ==
    /\ UNCHANGED <<service, faucet>>
    /\ pc = "download"
    /\ yielded < num_new_files
    /\ task[yielded + 1] \in Finished
    /\ yielded' = yielded + 1
    /\ UNCHANGED <<remote, fs, concurrent_downloads, local_hashes, by_hash,
                   stale_left, new_remote_hashes, up_to_date, task, loaded,
                   metadata_vec, pc, err, observed>>

\* collect::<Result<Vec<_>>>() takes the next result in order; the first Err
\* ends the call and drops the futures that are still buffered.
Collect ==
    /\ UNCHANGED <<service, faucet>>
    /\ pc = "download"
    /\ yielded < num_new_files
    /\ task[yielded + 1] \in Finished
    /\ IF task[yielded + 1] = "ok"
       THEN yielded' = yielded + 1 /\ UNCHANGED <<pc, err>>
       ELSE Fail("download") /\ UNCHANGED yielded
    /\ UNCHANGED <<remote, fs, concurrent_downloads, local_hashes, by_hash,
                   stale_left, new_remote_hashes, up_to_date, task, loaded,
                   metadata_vec, observed>>

\* The loading loop starts without waiting for the stream to end.
DownloadedEarly ==
    /\ UNCHANGED <<service, faucet>>
    /\ pc = "download"
    /\ pc' = "load"
    /\ UNCHANGED <<remote, fs, locals, err, observed>>

\* The stream is exhausted: every download returned Ok.
Downloaded ==
    /\ UNCHANGED <<service, faucet>>
    /\ pc = "download"
    /\ yielded = num_new_files
    /\ pc' = "load"
    /\ UNCHANGED <<remote, fs, locals, err, observed>>

(* ------------------------------------------------------------------ *)
(* Loading                                                             *)
(* ------------------------------------------------------------------ *)

load_new_only == new_remote_hashes

\* new_remote_hashes.into_iter().chain(up_to_date_local_hashes)
load_order == new_remote_hashes \o up_to_date

\* One turn of the loading loop: open the cached file and load its lines.
Load ==
    /\ UNCHANGED <<service, faucet>>
    /\ pc = "load"
    /\ loaded < Len(load_order)
    /\ LET h == load_order[loaded + 1] IN
         \/ /\ h \in DOMAIN fs
            /\ load_metadata_lines_ok(fs[h])
            /\ metadata_vec' = metadata_vec \o load_metadata_lines(fs[h])
            /\ loaded' = loaded + 1
            /\ n_loaded_opens' = n_loaded_opens + 1
            /\ UNCHANGED <<pc, err>>
         \/ /\ h \in DOMAIN fs
            /\ ~load_metadata_lines_ok(fs[h])
            /\ n_loaded_opens' = n_loaded_opens + 1
            /\ Fail("load_metadata_lines")
            /\ UNCHANGED <<metadata_vec, loaded>>
         \/ /\ Fail("open")
            /\ UNCHANGED <<metadata_vec, loaded, n_loaded_opens>>
    /\ UNCHANGED <<remote, fs, concurrent_downloads, local_hashes, by_hash,
                   stale_left, new_remote_hashes, up_to_date, task, yielded,
                   fs0, remote0, first_empty, n_list, n_save, n_open, n_removed,
                   n_tmp, processed, prev_ok_same, calls>>

\* Ok(metadata_vec.into())
ReturnView ==
    /\ UNCHANGED <<service, faucet>>
    /\ pc = "load"
    /\ loaded = Len(load_order)
    /\ pc' = "done"
    /\ UNCHANGED <<remote, fs, locals, err, observed>>

(* ------------------------------------------------------------------ *)
(* Environment                                                         *)
(* ------------------------------------------------------------------ *)

\* The process is killed in the middle of a call: only the cache directory
\* and the catalog survive.
Crash ==
    /\ UNCHANGED <<service, faucet>>
    /\ pc \notin Resting
    /\ pc' = "crashed"
    /\ ResetCall
    /\ concurrent_downloads' = 1
    /\ prev_ok_same' = FALSE
    /\ UNCHANGED <<remote, fs, fs0, remote0, calls>>

\* Between two calls the backup coordinator adds a metadata file to the
\* catalog or a compaction removes one; the result of the last call is gone.
CatalogChange ==
    /\ UNCHANGED <<service, faucet>>
    /\ pc \in Resting
    /\ \E h \in DataHandles : remote' = IF h \in remote THEN remote \ {h}
                                                        ELSE remote \cup {h}
    /\ pc' = "idle"
    /\ ResetCall
    /\ concurrent_downloads' = 1
    /\ fs0' = fs
    /\ remote0' = remote'
    /\ prev_ok_same' = FALSE
    /\ UNCHANGED <<fs, calls>>

Next ==
    \/ StartSync
    \/ CreateDir
    \/ ListLocal
    \/ ListRemote
    \/ InitializeIdentity
    \/ ReListRemote
    \/ Diff
    \/ Evict
    \/ EvictDone
    \/ \E i \in Tasks : OpenForRead(i)
    \/ \E i \in Tasks : CreateTmp(i)
    \/ \E i \in Tasks : CopyChunk(i)
    \/ \E i \in Tasks : CopyFail(i)
    \/ \E i \in Tasks : Rename(i)
    \/ Collect
    \/ Downloaded
    \/ Load
    \/ ReturnView
    \/ Crash
    \/ CatalogChange

Spec == Init /\ [][Next]_vars

\* The steps of a call.
CallStep ==
    \/ CreateDir
    \/ ListLocal
    \/ ListRemote
    \/ InitializeIdentity
    \/ ReListRemote
    \/ Diff
    \/ Evict
    \/ EvictDone
    \/ \E i \in Tasks : OpenForRead(i)
    \/ \E i \in Tasks : CreateTmp(i)
    \/ \E i \in Tasks : CopyChunk(i)
    \/ \E i \in Tasks : CopyFail(i)
    \/ \E i \in Tasks : Rename(i)
    \/ Collect
    \/ Downloaded
    \/ Load
    \/ ReturnView

NextRunning == StartSync \/ CallStep \/ CatalogChange

\* Calls whose process is not killed and whose pending operation always
\* completes, with success or with an error.
SpecRunning == Init /\ [][NextRunning]_vars /\ WF_vars(CallStep)

\* A catalog whose listing does not show a line saved a moment ago: the
\* second list_metadata_files() returns no handle and the call goes on.
ReListRemoteEmpty ==
    /\ UNCHANGED <<service, faucet>>
    /\ pc = "relist"
    /\ n_list' = n_list + 1
    /\ pc' = "diff"
    /\ by_hash' = CollectByHash(<<>>, EmptyMap)
    /\ UNCHANGED <<remote, fs, concurrent_downloads, local_hashes, stale_left,
                   new_remote_hashes, up_to_date, task, yielded, loaded,
                   metadata_vec, err, fs0, remote0, first_empty, n_save, n_open,
                   n_removed, n_tmp, processed, n_loaded_opens, prev_ok_same, calls>>

NextLagging == Next \/ ReListRemoteEmpty

SpecLaggingCatalog == Init /\ [][NextLagging]_vars

(* ------------------------------------------------------------------ *)
(* Backup service: routing of GET requests                             *)
(* ------------------------------------------------------------------ *)

\* Characters of HashValue::to_hex().
HashHexLen == 64

DecDigit == {"0", "1", "2", "3", "4", "5", "6", "7", "8", "9"}

\* HashValue::zero().to_hex()
ZeroHashHex == [i \in 1..HashHexLen |-> "0"]

\* Endpoints the requests of routing_and_error_codes name.
Endpoints == {"state_range_proof", "state_root_proof", "state_snapshot"}

\* Path segments after the endpoint name, as the requests of the test use
\* them, each a sequence of characters.
ParamTokens == {<<"0">>, <<"1">>, <<"1", "2", "3">>, <<"f", "f">>, ZeroHashHex}

\* Parameters an endpoint takes.
Arity(e) == IF e = "state_range_proof" THEN 2 ELSE 1

\* A path segment parses as a Version (u64).
IsVersion(p) == Len(p) > 0 /\ \A i \in 1..Len(p) : p[i] \in DecDigit

\* A path segment parses as a HashValue.
IsHashValue(p) == Len(p) = HashHexLen /\ \A i \in 1..Len(p) : p[i] \in Range(HexDigit)

\* The path of a request matches the parameters of endpoint e.
ParamsParse(e, params) ==
    /\ Len(params) = Arity(e)
    /\ IsVersion(params[1])
    /\ e = "state_range_proof" => IsHashValue(params[2])

\* GET requests: "/", "/x...", and the endpoints with up to all of their
\* parameters.
Requests ==
    {r \in [name : {"", "x"} \cup Endpoints,
            params : {<<>>} \cup {<<a>> : a \in ParamTokens}
                     \cup {<<a, b>> : a, b \in ParamTokens}] :
        /\ r.name = "" => r.params = <<>>
        /\ r.name \in Endpoints => Len(r.params) <= Arity(r.name)}

\* Routes in the order they are tried.
Routes == <<"state_range_proof", "state_root_proof", "state_snapshot">>

Rejected == "rejected"
Terminated == "terminated"

\* The route keeps its rejection, which makes the server try the next route.
rejection_kept(r) == r

\* The route turns its own rejection into a reply.
handle_rejection(r) == IF r = Rejected THEN "400" ELSE r

\* The handler of an endpoint over a database that was never bootstrapped:
\* it raises an error, which a byte reply reports as a status and a streamed
\* reply as a connection that ends early.
HandlerReply(e) == IF e = "state_snapshot" THEN Terminated ELSE "500"

\* One route: the parameters are parsed, then the handler runs.
RouteReply(e, params) ==
    handle_rejection(IF ParamsParse(e, params) THEN HandlerReply(e) ELSE Rejected)

\* The routes are tried in order; a rejection goes on to the next route and
\* a request no route takes is answered 404.
RECURSIVE Serve(_, _)
Serve(req, routes) ==
    IF routes = <<>> THEN "404"
    ELSE IF Head(routes) = req.name
              /\ RouteReply(req.name, req.params) # Rejected
         THEN RouteReply(req.name, req.params)
         ELSE Serve(req, Tail(routes))

\* A client sends a request.
Get ==
    /\ \E r \in Requests : request' = r
    /\ response' = NoResponse
    /\ UNCHANGED <<cache, faucet>>

\* The service answers it.
Reply ==
    /\ request # NoRequest
    /\ response = NoResponse
    /\ response' = Serve(request, Routes)
    /\ UNCHANGED <<request, cache, faucet>>

NextService == Get \/ Reply

SpecBackupService == Init /\ [][NextService]_vars

(* ------------------------------------------------------------------ *)
(* Faucet: the Postgres rate limiter                                   *)
(* ------------------------------------------------------------------ *)

\* Seconds the clock runs through.
MaxTime == 3

\* check calls followed.
MaxChecks == 2

\* args.max_requests_per_ip
max_requests_per_ip == 1

\* args.row_ttl_secs is Some(1)
row_ttl_secs == 1

\* `if error_count > 5`
MaxErrorCount == 5

\* completed_unixtime_secs of a request that is still going on.
NULL == -1

SourceIps == {"10.0.0.1", "10.0.0.2"}

\* The account each client asks funds for.
Receiver == [p \in Clients |-> IF p = "c1" THEN "0xa" ELSE "0xb"]

\* u64 amounts: one that fits an i64 and one above i64::MAX.
Amounts == {"100", "over_i64"}

\* i64::try_from(data.amount) returns Ok
I64TryFromOk(a) == a # "over_i64"

\* A row counts when it is of the IP and was completed with success or is
\* still going on.
SelectedOrOngoing(r, ip) ==
    /\ r.ip = ip
    /\ r.completed_unixtime_secs = NULL \/ r.completed_unixtime_secs > 0

\* .filter(Column::Ip.eq(ip)).filter(Column::CompletedUnixtimeSecs.gt(0)):
\* SQL's `NULL > 0` is not true, so a row without a completion time is not
\* selected.
Selected(r, ip) ==
    /\ r.ip = ip
    /\ r.completed_unixtime_secs # NULL
    /\ r.completed_unixtime_secs > 0

\* .limit(max_requests_per_ip).all(&self.db): the rows the query returns.
QueryRows(ip) ==
    Min(Cardinality({r \in requests : Selected(r, ip)}), max_requests_per_ip)

\* The row check inserts: the columns it does not set are NULL.
ActiveModel(d) ==
    [ip |-> d.source_ip,
     account_address |-> d.receiver,
     amount |-> d.amount,
     insertion_unixtime_secs |-> d.time_request_received_secs,
     completed_unixtime_secs |-> NULL]

\* A table without a primary key takes every row.
no_primary_key(row) == FALSE

\* primary_key(ip, insertion_unixtime_secs): the table refuses a row whose
\* key it already holds.
primary_key_conflict(row) ==
    \E r \in requests :
        /\ r.ip = row.ip
        /\ r.insertion_unixtime_secs = row.insertion_unixtime_secs

\* A request arrives and check is called on it.
CheckStart(p) ==
    /\ check_pc[p] = "idle"
    /\ checks < MaxChecks
    /\ checks' = checks + 1
    /\ \E ip \in SourceIps : \E a \in Amounts : \E dry \in BOOLEAN :
           data' = [data EXCEPT ![p] =
                       [source_ip |-> ip, receiver |-> Receiver[p], amount |-> a,
                        time_request_received_secs |-> now, dry_run |-> dry]]
    /\ check_pc' = [check_pc EXCEPT ![p] = "query"]
    /\ UNCHANGED <<requests, now, rows_len, result, reaper_pc, error_count,
                   failed_in_a_row, cache, service>>

\* A check that inserts the row of a dry run as well.
QueryInsertsOnDryRun(p) ==
    /\ check_pc[p] = "query"
    /\ \/ /\ result' = [result EXCEPT ![p] = "StorageError"]
          /\ check_pc' = [check_pc EXCEPT ![p] = "returned"]
          /\ UNCHANGED rows_len
       \/ /\ rows_len' = [rows_len EXCEPT ![p] = QueryRows(data[p].source_ip)]
          /\ IF rows_len'[p] >= max_requests_per_ip
             THEN /\ result' = [result EXCEPT ![p] = "IpUsageLimitExhausted"]
                  /\ check_pc' = [check_pc EXCEPT ![p] = "returned"]
             ELSE IF data[p].dry_run
             THEN /\ result' = [result EXCEPT ![p] = "accepted"]
                  /\ check_pc' = [check_pc EXCEPT ![p] = "returned"]
             ELSE /\ check_pc' = [check_pc EXCEPT ![p] = "insert"]
                  /\ UNCHANGED result
    /\ IF check_pc'[p] = "returned" /\ result'[p] = "accepted"
       THEN requests' = requests \cup {ActiveModel(data[p])}
       ELSE UNCHANGED requests
    /\ UNCHANGED <<now, data, checks, reaper_pc, error_count,
                   failed_in_a_row, cache, service>>

\* check: the rows of the source IP are read and compared with the limit.
Query(p) ==
    /\ check_pc[p] = "query"
    /\ \/ /\ result' = [result EXCEPT ![p] = "StorageError"]
          /\ check_pc' = [check_pc EXCEPT ![p] = "returned"]
          /\ UNCHANGED rows_len
       \/ /\ rows_len' = [rows_len EXCEPT ![p] = QueryRows(data[p].source_ip)]
          /\ IF rows_len'[p] >= max_requests_per_ip
             THEN /\ result' = [result EXCEPT ![p] = "IpUsageLimitExhausted"]
                  /\ check_pc' = [check_pc EXCEPT ![p] = "returned"]
             ELSE IF data[p].dry_run
             THEN /\ result' = [result EXCEPT ![p] = "accepted"]
                  /\ check_pc' = [check_pc EXCEPT ![p] = "returned"]
             ELSE /\ check_pc' = [check_pc EXCEPT ![p] = "insert"]
                  /\ UNCHANGED result
    /\ UNCHANGED <<requests, now, data, checks, reaper_pc, error_count,
                   failed_in_a_row, cache, service>>

\* check, `if !dry_run`: the amount is converted and the row inserted.
Insert(p) ==
    /\ check_pc[p] = "insert"
    /\ check_pc' = [check_pc EXCEPT ![p] = "returned"]
    /\ IF ~I64TryFromOk(data[p].amount)
       THEN /\ result' = [result EXCEPT ![p] = "InvalidRequest"]
            /\ UNCHANGED requests
       ELSE \/ /\ ~primary_key_conflict(ActiveModel(data[p]))
               /\ requests' = requests \cup {ActiveModel(data[p])}
               /\ result' = [result EXCEPT ![p] = "accepted"]
            \/ /\ result' = [result EXCEPT ![p] = "StorageError"]
               /\ UNCHANGED requests
    /\ UNCHANGED <<now, data, rows_len, checks, reaper_pc, error_count,
                   failed_in_a_row, cache, service>>

\* The request is over for a check that did not insert a row.
Return(p) ==
    /\ check_pc[p] = "returned"
    /\ result[p] # "accepted" \/ data[p].dry_run
    /\ check_pc' = [check_pc EXCEPT ![p] = "idle"]
    /\ data' = [data EXCEPT ![p] = NoData]
    /\ rows_len' = [rows_len EXCEPT ![p] = 0]
    /\ result' = [result EXCEPT ![p] = "none"]
    /\ UNCHANGED <<requests, now, checks, reaper_pc, error_count,
                   failed_in_a_row, cache, service>>

\* complete: the row of the request gets its completion time, 0 when the
\* response was a 500.
Complete(p) ==
    /\ check_pc[p] = "returned"
    /\ result[p] = "accepted"
    /\ ~data[p].dry_run
    /\ \E response_is_500 \in BOOLEAN :
        LET completed_unixtime_secs == IF response_is_500 THEN 0 ELSE now
            mine(r) == /\ r.ip = data[p].source_ip
                       /\ r.account_address = data[p].receiver
                       /\ r.insertion_unixtime_secs = data[p].time_request_received_secs
        IN  \/ requests' =
                  {IF mine(r)
                   THEN [r EXCEPT !.completed_unixtime_secs = completed_unixtime_secs]
                   ELSE r : r \in requests}
            \/ UNCHANGED requests
    /\ check_pc' = [check_pc EXCEPT ![p] = "idle"]
    /\ data' = [data EXCEPT ![p] = NoData]
    /\ rows_len' = [rows_len EXCEPT ![p] = 0]
    /\ result' = [result EXCEPT ![p] = "none"]
    /\ UNCHANGED <<now, checks, reaper_pc, error_count, failed_in_a_row,
                   cache, service>>

\* A second passes.
Tick ==
    /\ now < MaxTime
    /\ now' = now + 1
    /\ UNCHANGED <<requests, check_pc, data, rows_len, result, checks, reaper_pc,
                   error_count, failed_in_a_row, cache, service>>

\* spawn_periodic_tasks: row_ttl_secs is set, the reaper task is spawned.
SpawnPeriodicTasks ==
    /\ reaper_pc = "unspawned"
    /\ reaper_pc' = "connect"
    /\ UNCHANGED <<requests, now, check_pc, data, rows_len, result, checks,
                   error_count, failed_in_a_row, cache, service>>

\* clear_old_rows: args.build_database_connection().await?
ReaperConnect ==
    /\ reaper_pc = "connect"
    /\ \/ reaper_pc' = "delete"
       \/ reaper_pc' = "connect_failed"
    /\ UNCHANGED <<requests, now, check_pc, data, rows_len, result, checks,
                   error_count, failed_in_a_row, cache, service>>

\* The count of errors is kept over a delete that succeeded.
error_count_kept == error_count

\* `error_count = 0` after a delete that succeeded.
error_count_after_ok == 0

\* clear_old_rows, one turn of the loop: the delete, the count of errors
\* and the sleep.
ReaperDelete ==
    /\ reaper_pc = "delete"
    /\ \/ /\ requests' = {r \in requests :
                             ~(r.insertion_unixtime_secs < now - row_ttl_secs)}
          /\ error_count' = error_count_after_ok
          /\ failed_in_a_row' = 0
          /\ reaper_pc' = "delete"
       \/ /\ error_count' = error_count + 1
          /\ failed_in_a_row' = failed_in_a_row + 1
          /\ reaper_pc' = IF error_count' > MaxErrorCount
                          THEN "too_many_failures" ELSE "delete"
          /\ UNCHANGED requests
    /\ UNCHANGED <<now, check_pc, data, rows_len, result, checks, cache, service>>

NextFaucet ==
    \/ \E p \in Clients : CheckStart(p)
    \/ \E p \in Clients : Query(p)
    \/ \E p \in Clients : Insert(p)
    \/ \E p \in Clients : Return(p)
    \/ \E p \in Clients : Complete(p)
    \/ Tick
    \/ SpawnPeriodicTasks
    \/ ReaperConnect
    \/ ReaperDelete

\* The faucet over an empty requests table.
InitFaucet == Init /\ remote = {} /\ fs = EmptyMap

SpecFaucet == InitFaucet /\ [][NextFaucet]_vars

(* ------------------------------------------------------------------ *)
(* Properties                                                          *)
(* ------------------------------------------------------------------ *)

TempNames == {local_tmp_file(KeyOf[h]) : h \in FileHandles}
FinalNames == DOMAIN fs \ TempNames
HashOfRemote == {KeyOf[h] : h \in remote}
RecordsIn(text) == Range(text) \cap Records

\* The records of the cache files named by the sequence o, file after file.
RECURSIVE RecordsOfFiles(_)
RecordsOfFiles(o) ==
    IF o = <<>> THEN <<>>
    ELSE (IF Head(o) \in DOMAIN fs THEN load_metadata_lines(fs[Head(o)]) ELSE <<>>)
         \o RecordsOfFiles(Tail(o))

\* The first listing of the call returned at least one handle.
FirstListingNonEmpty ==
    /\ pc \in {"diff", "evict", "download", "load", "done", "failed"}
    /\ ~first_empty
    /\ n_list >= 1
    /\ err # "list_metadata_files"

\* The bootstrap write succeeded and the second listing was returned.
ReListed ==
    /\ first_empty
    /\ n_list = 2
    /\ pc \in {"diff", "evict", "download", "load", "done", "failed"}
    /\ err # "list_metadata_files"

\* C1 (Convergence): when sync_and_load returns Ok, the final (non-temporary)
\* file names of the cache directory are exactly the hashes of the remote
\* file handles, whatever the directory held before.
C1_Convergence == pc = "done" => FinalNames = HashOfRemote

\* A successful call that had to delete a stale file and to download one.
C1_Witness ==
    /\ pc = "done"
    /\ n_removed > 0
    /\ n_open > 0
    /\ DOMAIN fs0 \ HashOfRemote # {}

\* C2 (Atomic visibility): in every state, also after a crash or a failed
\* copy, a final-named cache file holds the complete stream of a handle with
\* that key, and a file committed by a download of this call holds the
\* complete stream of its handle; partial content is under temporary names.
C2_AtomicVisibility ==
    /\ \A n \in FinalNames :
         \E h \in FileHandles : KeyOf[h] = n /\ fs[n] = StreamOf(h)
    /\ \A i \in DOMAIN task :
         task[i] = "ok" =>
            /\ local_file(i) \in DOMAIN fs
            /\ fs[local_file(i)] = StreamOf(file_handle(i))

\* The process was killed while one temporary file was partly written and
\* another download had already been renamed.
C2_Witness ==
    /\ pc = "crashed"
    /\ \E h \in FileHandles :
         /\ local_tmp_file(KeyOf[h]) \in DOMAIN fs
         /\ Len(fs[local_tmp_file(KeyOf[h])]) > 0
         /\ Len(fs[local_tmp_file(KeyOf[h])]) < Len(StreamOf(h))
         /\ KeyOf[h] \notin DOMAIN fs
    /\ FinalNames \ DOMAIN fs0 # {}

\* C3 (View completeness): the returned view is the records of the cache
\* files with a key in current \cup missing, file by file in line order, each
\* file once, and holds no record of a final-named file evicted by the call.
C3_ViewCompleteness ==
    pc = "done" =>
        /\ \E o \in Orders(current_hashes \cup missing_hashes) :
              metadata_vec = RecordsOfFiles(o)
        /\ \A h \in stale_local_hashes \ TempNames :
              RecordsIn(fs0[h]) \cap Range(metadata_vec) = {}

\* A successful call with one stale, one up-to-date and one downloaded file.
C3_Witness ==
    /\ pc = "done"
    /\ stale_local_hashes \ TempNames # {}
    /\ current_hashes # {}
    /\ missing_hashes # {}
    /\ Len(metadata_vec) >= 3

\* C4 (Idempotence): a successful call that follows a successful call, with
\* the catalog unchanged in between, opens no remote stream and removes no
\* local file.
C4_Idempotence ==
    (pc = "done" /\ prev_ok_same) => (n_open = 0 /\ n_removed = 0 /\ n_tmp = 0)

\* The second of two successful calls, over a cache of two files.
C4_Witness ==
    /\ pc = "done"
    /\ prev_ok_same
    /\ Cardinality(DOMAIN fs) >= 2
    /\ Len(metadata_vec) >= 2

C7_BootstrapFrame ==
    FirstListingNonEmpty => (n_save = 0 /\ n_list = 1 /\ remote = remote0)

\* A successful call over a catalog that was not empty.
C7_Witness ==
    /\ pc = "done"
    /\ FirstListingNonEmpty
    /\ remote0 # {}
    /\ n_open > 0

\* The save of the bootstrap returned an error.
SaveFailed == first_empty /\ n_save = 1 /\ remote = remote0

\* C8 (Bootstrap failure is fatal): when the listing is empty and the save
\* fails, the call returns the error, with no view, no eviction and no
\* download, and the cache directory is as it was before the call.
C8_BootstrapFailureFatal ==
    SaveFailed =>
        /\ pc = "failed"
        /\ err = "initialize_identity"
        /\ fs = fs0
        /\ n_removed = 0
        /\ n_open = 0
        /\ n_tmp = 0
        /\ n_loaded_opens = 0
        /\ metadata_vec = <<>>

\* The bootstrap failed over a cache directory that held files.
C8_Witness ==
    /\ SaveFailed
    /\ pc = "failed"
    /\ Cardinality(DOMAIN fs0) >= 2

\* The second listing was returned empty.
ReListedEmpty == ReListed /\ n_save = 1 /\ remote_hashes = {}

\* C9, as claimed: when the listing is still empty after a successful
\* bootstrap write, the call fails: it does not go on, evicts nothing and
\* returns no view.
C9_EmptyReListFails ==
    ReListedEmpty => (pc = "failed" /\ n_removed = 0)

\* C9, amended: when the listing is still empty after a successful bootstrap
\* write, the call goes on with an empty remote set: it downloads nothing,
\* can only fail in remove_file, and on success has removed every file of
\* the cache directory and returns the empty view.
C9_EmptyReListGoesOn ==
    ReListedEmpty =>
        /\ n_open = 0
        /\ n_tmp = 0
        /\ pc = "failed" => err = "remove_file"
        /\ pc = "done" =>
              /\ DOMAIN fs = {}
              /\ n_removed = Cardinality(DOMAIN fs0)
              /\ metadata_vec = <<>>

\* The call returned the empty view after it emptied a cache of two files.
C9_Witness ==
    /\ ReListedEmpty
    /\ pc = "done"
    /\ Cardinality(DOMAIN fs0) >= 2

\* C10 (Eviction before download): a download step (a remote stream opened,
\* a temporary file created) happens only after every stale file was
\* removed, and a call that fails in remove_file has downloaded and loaded
\* nothing.
C10_EvictionBeforeDownload ==
    /\ (n_open > 0 \/ n_tmp > 0 \/ pc \in {"download", "load", "done"}) =>
          /\ stale_left = {}
          /\ n_removed = Cardinality(stale_local_hashes)
    /\ (pc = "failed" /\ err = "remove_file") =>
          /\ n_open = 0
          /\ n_tmp = 0
          /\ n_loaded_opens = 0
          /\ metadata_vec = <<>>

\* A download is under way after two stale files were removed.
C10_Witness ==
    /\ pc = "download"
    /\ n_tmp > 0
    /\ n_removed >= 2

\* Download futures that have started and whose result was not yet yielded.
StartedNotYielded == {i \in DOMAIN task : task[i] # "iter" /\ i > yielded}
\* Download futures taken from the iterator that have not finished.
PulledNotFinished == {i \in DOMAIN task : i \in Pulled /\ task[i] \notin Finished}

\* C11 (Bounded concurrency): for every concurrent_downloads and every
\* interleaving, at most concurrent_downloads downloads are in flight (stream
\* opened or temporary file created, not yet renamed), and at most
\* 2 * concurrent_downloads futures are taken from the list and unfinished
\* (or started and not yet yielded).
C11_BoundedConcurrency ==
    /\ Cardinality({i \in DOMAIN task : task[i] \in {"opened", "copy"}})
          <= concurrent_downloads
    /\ Cardinality(StartedNotYielded) <= 2 * concurrent_downloads
    /\ Cardinality(PulledNotFinished) <= 2 * concurrent_downloads

\* Both limits are reached: the in-flight cap and the buffer are full while
\* a further future waits.
C11_Witness ==
    /\ pc = "download"
    /\ Cardinality(InFlight) = concurrent_downloads
    /\ Cardinality(StartedNotYielded) = 2 * concurrent_downloads
    /\ \E i \in DOMAIN task : task[i] = "iter"

\* C12 (Download failure aborts the sync): once a download future has
\* failed in any step, the call can only end with that error: the loader is
\* never entered and no view is built, every missing key whose download did
\* not complete has no final-named file, and the temporary file of a future
\* that failed after creating it is still in the directory.
C12_DownloadFailureAborts ==
    (\E i \in DOMAIN task : task[i] \in Errs) =>
        /\ pc \in {"download", "failed"}
        /\ pc = "failed" => err = "download"
        /\ loaded = 0
        /\ n_loaded_opens = 0
        /\ metadata_vec = <<>>
        /\ \A i \in DOMAIN task :
              task[i] # "ok" => local_file(i) \notin DOMAIN fs
        /\ \A i \in DOMAIN task :
              task[i] \in {"err_copy", "err_rename"} => tmp_file(i) \in DOMAIN fs

\* The call returned the error of a copy that failed half way, after
\* another download was committed.
C12_Witness ==
    /\ pc = "failed"
    /\ err = "download"
    /\ \E i \in DOMAIN task :
          /\ task[i] = "err_copy"
          /\ Len(fs[tmp_file(i)]) > 0
          /\ Len(fs[tmp_file(i)]) < Len(StreamOf(file_handle(i)))
    /\ \E j \in DOMAIN task : task[j] = "ok"

\* The call has computed stale, missing and current.
Diffed == pc \in {"evict", "download", "load", "done"}

\* Temporary files that were in the cache directory when the call listed it.
ListedTemps == DOMAIN fs0 \cap TempNames

\* C13, as claimed: a temporary file found in the cache directory is in none
\* of stale, missing and current, so the evictor leaves it alone.
C13_TempOutsideDiff ==
    Diffed =>
        ListedTemps \cap
            (stale_local_hashes \cup missing_hashes \cup current_hashes) = {}

\* C13, amended: a temporary file found in the cache directory is listed
\* like any other file and is a member of stale (so the evictor deletes it),
\* never of missing or current; missing and current are what they would be
\* without it.
C13_TempIsStale ==
    Diffed =>
        /\ ListedTemps \subseteq stale_local_hashes
        /\ ListedTemps \cap (missing_hashes \cup current_hashes) = {}
        /\ missing_hashes = remote_hashes \ (DOMAIN fs0 \ TempNames)
        /\ current_hashes = remote_hashes \cap (DOMAIN fs0 \ TempNames)
        /\ Range(new_remote_hashes) = missing_hashes
        /\ Range(up_to_date) = current_hashes

\* The eviction loop has removed files of a directory that held a
\* temporary file, and no download has started yet.
C13_Witness ==
    /\ pc = "download"
    /\ n_open = 0
    /\ n_removed > 0
    /\ ListedTemps # {}

\* C14, as claimed: when the call finds the orphan '.<key>' of an
\* interrupted run and <key> is still missing, its exclusive creation of
\* '.<key>' fails on the orphan and the call returns an error.
C14_OrphanBlocksSync ==
    (\E k \in missing_hashes : local_tmp_file(k) \in ListedTemps) => pc # "done"

\* C14, amended: the orphan '.<key>' of an interrupted run is removed by the
\* eviction loop of the next call, so when a download future comes to its
\* exclusive creation no file of that name exists; the call fails for
\* that key only when one of its own steps returns an error.
C14_NoOrphanAtCreate ==
    pc = "download" =>
        \A i \in DOMAIN task :
            task[i] \in {"iter", "opened", "err_open", "err_create"} =>
                tmp_file(i) \notin DOMAIN fs

\* A download has created its temporary file anew although an orphan of
\* that name was in the directory when the call started.
C14_Witness ==
    /\ pc = "download"
    /\ \E i \in DOMAIN task :
          /\ task[i] = "copy"
          /\ tmp_file(i) \in ListedTemps

\* The lines of a cache file as str::lines() returns them.
FileLines(h) == SplitLines(fs[h], <<>>, <<>>)

\* The file the loading loop has opened when it fails.
FileAtFault == load_order[loaded + 1]

RECURSIVE LineCount(_)
LineCount(o) == IF o = <<>> THEN 0 ELSE Len(FileLines(Head(o))) + LineCount(Tail(o))

\* C15, as claimed: an empty line is skipped without an error, so a load
\* fails only on a non-empty line that does not parse.
C15_EmptyLinesSkipped ==
    (pc = "failed" /\ err = "load_metadata_lines") =>
        \E i \in 1..Len(FileLines(FileAtFault)) :
            /\ FileLines(FileAtFault)[i] # <<>>
            /\ ~ParseOk(FileLines(FileAtFault)[i])

\* C15, amended: the loader parses every line of a cache file as one
\* Metadata record, an empty line included; every line of a file it has
\* loaded is one record and gave one entry of the view, and a call fails in
\* load_metadata_lines exactly on a file with a line that is empty or is
\* not a record.
C15_EveryLineParsed ==
    /\ pc \in {"load", "done"} =>
          /\ \A j \in 1..loaded :
                \A i \in 1..Len(FileLines(load_order[j])) :
                    /\ FileLines(load_order[j])[i] # <<>>
                    /\ Len(FileLines(load_order[j])[i]) = 1
                    /\ FileLines(load_order[j])[i][1] \in Records
          /\ Len(metadata_vec) = LineCount(SubSeq(load_order, 1, loaded))
    /\ (pc = "failed" /\ err = "load_metadata_lines") =>
          \E i \in 1..Len(FileLines(FileAtFault)) :
              \/ FileLines(FileAtFault)[i] = <<>>
              \/ Len(FileLines(FileAtFault)[i]) # 1
              \/ FileLines(FileAtFault)[i][1] \notin Records

\* The call failed on a file whose only bad line is an empty one, after it
\* had loaded another file.
C15_Witness ==
    /\ pc = "failed"
    /\ err = "load_metadata_lines"
    /\ loaded >= 1
    /\ \E i \in 1..Len(FileLines(FileAtFault)) : FileLines(FileAtFault)[i] = <<>>
    /\ \A i \in 1..Len(FileLines(FileAtFault)) :
          FileLines(FileAtFault)[i] # <<>> => ParseOk(FileLines(FileAtFault)[i])

\* The stages of a call in the order of the code.
StageNo(p) ==
    CASE p = "create_dir" -> 1
      [] p = "list_local" -> 2
      [] p = "list_remote" -> 3
      [] p = "bootstrap" -> 4
      [] p = "relist" -> 5
      [] p = "diff" -> 6
      [] p = "evict" -> 7
      [] p = "download" -> 8
      [] p = "load" -> 9
      [] OTHER -> 10

\* C16 (Termination without retry): when every pending operation completes,
\* a call reaches Ok(view) or Err(error) and stays there; the stages follow
\* each other in one direction, so each is entered at most once, and no
\* operation is issued more often than one pass needs (a failed one is not
\* tried again).
C16_TerminatesWithoutRetry ==
    /\ (pc \notin Resting) ~> (pc \in {"done", "failed"})
    /\ [][/\ (pc \notin Resting /\ pc' # pc) => StageNo(pc') > StageNo(pc)
          /\ pc \in {"done", "failed"} => pc' \in {pc, "create_dir", "idle"}]_vars
    /\ [](/\ n_list <= 2
          /\ n_save <= 1
          /\ n_removed <= Cardinality(stale_local_hashes)
          /\ n_open <= num_new_files
          /\ n_tmp <= n_open
          /\ n_loaded_opens <= Len(load_order))

\* A call ended with the error of its third download.
C16_Witness ==
    /\ pc = "failed"
    /\ err = "download"
    /\ yielded = 2
    /\ n_open = 3

SignificantNibbles(v) ==
    LET nz == {i \in 1..U64Nibbles : v[i] # 0}
    IN  IF nz = {} THEN 1
        ELSE U64Nibbles + 1 - (CHOOSE i \in nz : \A j \in nz : i <= j)

\* C17 (CacheKey is fixed-width, original statement): the keys of all
\* handles have the same length.
C17_FixedWidth ==
    \A k1 \in DOMAIN by_hash : \A k2 \in DOMAIN by_hash : Len(k1) = Len(k2)

\* C17 (CacheKey width): the key of a handle is the hexadecimal rendering of
\* its 64-bit hash without leading zeros, so it has between one and sixteen
\* characters, as many as the hash has significant nibbles; the key in the
\* map is the key of the handle stored under it (equal handles, equal keys).
C17_KeyWidthFollowsHash ==
    \A k \in DOMAIN by_hash :
        /\ Len(k) = SignificantNibbles(HasherFinish(by_hash[k]))
        /\ Len(k) \in 1..U64Nibbles
        /\ k = file_handle_hash(by_hash[k])

\* The remote listing was collected with a handle whose hash starts with a
\* zero nibble next to one whose hash does not.
C17_Witness ==
    /\ pc = "diff"
    /\ KeyOf["A"] \in DOMAIN by_hash
    /\ KeyOf["B"] \in DOMAIN by_hash
    /\ Len(KeyOf["A"]) < U64Nibbles

\* C18 (Temporary names never collide with committed names): for all
\* handles h1 and h2, "." followed by the key of h1 is not the key of h2;
\* so the temporary file of a download is never the cache file of a listed
\* handle, of another download or of a file being loaded.
C18_TempNeverFinal ==
    /\ \A h1 \in FileHandles : \A h2 \in FileHandles :
           "." \o file_handle_hash(h1) # file_handle_hash(h2)
    /\ pc \in {"download", "load", "done"} =>
           \A i \in Tasks :
               /\ tmp_file(i) \notin DOMAIN by_hash
               /\ \A j \in Tasks : tmp_file(i) # local_file(j)
               /\ tmp_file(i) \notin Range(up_to_date)

\* A download is writing its temporary file while a committed file is in
\* the cache directory and a second download is still to come.
C18_Witness ==
    /\ pc = "download"
    /\ num_new_files = 2
    /\ task[1] = "copy"
    /\ tmp_file(1) \in DOMAIN fs
    /\ Range(up_to_date) \cap DOMAIN fs # {}

\* C20 (Stale temporary files are reclaimed on the next run): the temporary
\* files a call finds in the cache directory, left by a call that failed or
\* was interrupted, are all deleted when its eviction loop is through, before
\* its first download starts, whether or not their keys are in the remote
\* set; a temporary file seen later was created anew by a download of this
\* call.
C20_StaleTempsReclaimed ==
    /\ (pc = "download" /\ n_open = 0) => DOMAIN fs \cap TempNames = {}
    /\ pc \in {"download", "load", "done"} =>
        /\ n_removed >= Cardinality(ListedTemps)
        /\ \A n \in DOMAIN fs \cap TempNames :
               \E i \in Tasks :
                   /\ tmp_file(i) = n
                   /\ task[i] \in {"copy", "err_copy", "err_rename"}

\* A call is done that found two temporary files, one of a key that is
\* still in the remote set and one of a key that is not; neither is left.
C20_Witness ==
    /\ pc = "done"
    /\ \E n \in ListedTemps : \E k \in remote_hashes : n = local_tmp_file(k)
    /\ \E n \in ListedTemps : \A k \in remote_hashes : n # local_tmp_file(k)
    /\ DOMAIN fs \cap TempNames = {}

\* C21 (Stage ordering of load after download): once the loading loop has
\* started, every download future has returned Ok and was collected, every
\* missing key is a final-named file of the cache directory and no
\* temporary file of this call is left; the files the loader has opened, and
\* the one it opens next, are final names whose key is current or missing.
C21_LoadAfterDownload ==
    (pc = "load" \/ n_loaded_opens > 0) =>
        /\ yielded = num_new_files
        /\ \A i \in Tasks : task[i] = "ok" /\ tmp_file(i) \notin DOMAIN fs
        /\ missing_hashes \subseteq DOMAIN fs
        /\ n_loaded_opens <= Len(load_order)
        /\ \A k \in 1..Min(Len(load_order), n_loaded_opens + 1) :
               /\ load_order[k] \in current_hashes \cup missing_hashes
               /\ load_order[k] \notin TempNames

\* Two downloads ran side by side and the loader has opened its first file.
C21_Witness ==
    /\ pc = "load"
    /\ concurrent_downloads = 2
    /\ num_new_files = 2
    /\ n_loaded_opens = 1

\* C22 (Progress observation): each download log line reports the number of
\* downloads completed so far, so the reported counts are 1, 2, ..., total in
\* the order the lines are written.
C22_ProgressCountsCompletions ==
    \A k \in 1..Len(processed) : processed[k] = k

\* C23 (One download per key): the keys to download are pairwise different,
\* one per missing key, also when two remote handles have the same hash or
\* the listing repeats a handle; so no two download futures of a call share
\* a temporary file, no more than |missing| downloads are opened, and a call
\* that comes to loading has done exactly |missing| downloads.
C23_OneDownloadPerKey ==
    Diffed =>
        /\ \A i \in Tasks : \A j \in Tasks :
               i # j => /\ new_remote_hashes[i] # new_remote_hashes[j]
                        /\ tmp_file(i) # tmp_file(j)
        /\ num_new_files = Cardinality(missing_hashes)
        /\ n_open <= Cardinality(missing_hashes)
        /\ n_tmp <= n_open
        /\ pc \in {"load", "done"} =>
               /\ n_open = Cardinality(missing_hashes)
               /\ n_tmp = Cardinality(missing_hashes)
               /\ Len(processed) = Cardinality(missing_hashes)

\* A call is done over a catalog of three handles, two of them with the
\* same hash, after two downloads.
C23_Witness ==
    /\ pc = "done"
    /\ remote = {"A", "B", "C"}
    /\ n_open = 2
    /\ Len(processed) = 2

\* C24 (Frame of up-to-date entries): at every point of a call, also after
\* it has failed at any stage, every final-named file whose key is both
\* local and remote is in the cache directory with the content it had when
\* the call started.
C24_CurrentUntouched ==
    \A k \in current_hashes :
        /\ k \in DOMAIN fs0
        /\ k \in DOMAIN fs
        /\ fs[k] = fs0[k]

\* A call failed in its downloads after it had removed a stale file and
\* written a temporary file, next to a file that was up to date.
C24_Witness ==
    /\ pc = "failed"
    /\ err = "download"
    /\ current_hashes # {}
    /\ n_removed > 0
    /\ n_tmp > 0

\* Rows of an IP that were completed with success or are still going on.
ActiveRows(ip) == {r \in requests : SelectedOrOngoing(r, ip)}

\* C25 (Rate limit counts successful and ongoing requests): a check that
\* reads the table while the source IP has max_requests_per_ip rows that are
\* completed with success or still going on returns the rejection
\* IpUsageLimitExhausted (or the error of the read), and does not go on to
\* insert.
C25_CountsSuccessfulAndOngoing ==
    [][\A p \in Clients :
          (/\ check_pc[p] = "query"
           /\ check_pc'[p] # "query"
           /\ Cardinality(ActiveRows(data[p].source_ip)) >= max_requests_per_ip)
          => /\ check_pc'[p] = "returned"
             /\ result'[p] \in {"IpUsageLimitExhausted", "StorageError"}]_vars

\* The row the claim describes for the request of client p.
ClaimedRow(p) ==
    [ip |-> data[p].source_ip,
     account_address |-> data[p].receiver,
     amount |-> data[p].amount,
     insertion_unixtime_secs |-> data[p].time_request_received_secs,
     completed_unixtime_secs |-> NULL]

\* A step in which the check of client p returns.
CheckReturns(p) == check_pc[p] \in {"query", "insert"} /\ check_pc'[p] = "returned"

\* C26 (check inserts a request row if and only if it accepts): the step in
\* which a check returns adds exactly one row (ip, receiver, amount, insertion
\* time, completion NULL) when it returns no rejection and dry_run is false,
\* and leaves the table as it is when it returns a rejection, an error, or
\* the acceptance of a dry run; the read of the rows changes nothing.
C26_InsertsIffAccepts ==
    [][\A p \in Clients :
          /\ (check_pc[p] = "query" /\ check_pc'[p] = "insert") => requests' = requests
          /\ CheckReturns(p) =>
                IF result'[p] = "accepted" /\ ~data[p].dry_run
                THEN /\ ClaimedRow(p) \notin requests
                     /\ requests' = requests \cup {ClaimedRow(p)}
                ELSE requests' = requests]_vars

\* One check has inserted its row and returned, another has returned the
\* acceptance of a dry run, and the table holds the one row.
C26_Witness ==
    /\ check_pc = [p \in Clients |-> "returned"]
    /\ result = [p \in Clients |-> "accepted"]
    /\ ~data["c1"].dry_run
    /\ data["c2"].dry_run
    /\ requests = {ClaimedRow("c1")}

\* No two rows of the table have the same ip and insertion time.
OneRowPerIpPerSecond ==
    \A r1 \in requests : \A r2 \in requests :
        (r1.ip = r2.ip /\ r1.insertion_unixtime_secs = r2.insertion_unixtime_secs)
        => r1 = r2

\* The table holds a row of the ip and the second of client p's request.
KeyTaken(p) ==
    \E r \in requests :
        /\ r.ip = data[p].source_ip
        /\ r.insertion_unixtime_secs = data[p].time_request_received_secs

\* C27 (At most one row per IP per second, original statement): the table
\* never holds two rows of one (ip, insertion time), and a check that is not
\* a dry run and returns while the table holds a row of its ip and second
\* returns a StorageError and leaves the table as it is.
C27_SecondCheckIsStorageError ==
    /\ []OneRowPerIpPerSecond
    /\ [][\A p \in Clients :
             (CheckReturns(p) /\ ~data[p].dry_run /\ KeyTaken(p))
             => (result'[p] = "StorageError" /\ requests' = requests)]_vars

\* C27 (At most one row per IP per second): the table never holds two rows
\* of one (ip, insertion time), also when checks run side by side; a check
\* that is not a dry run and returns while the table holds a row of its ip
\* and second never adds or changes a row, and returns a StorageError, or
\* IpUsageLimitExhausted when the IP is at its limit, or InvalidRequest when
\* the amount does not fit.
C27_OneRowPerIpPerSecond ==
    /\ []OneRowPerIpPerSecond
    /\ [][\A p \in Clients :
             (CheckReturns(p) /\ ~data[p].dry_run /\ KeyTaken(p))
             => /\ result'[p] \in {"StorageError", "IpUsageLimitExhausted",
                                   "InvalidRequest"}
                /\ requests' = requests
                /\ (check_pc[p] = "insert" /\ I64TryFromOk(data[p].amount))
                       => result'[p] = "StorageError"]_vars

\* Two checks of one IP in one second ran side by side: the first inserted
\* its row, the second passed the limit and was refused by the table.
C27_Witness ==
    /\ check_pc = [p \in Clients |-> "returned"]
    /\ data["c1"].source_ip = data["c2"].source_ip
    /\ data["c1"].time_request_received_secs = data["c2"].time_request_received_secs
    /\ ~data["c1"].dry_run /\ ~data["c2"].dry_run
    /\ data["c2"].amount = "100"
    /\ result["c1"] = "accepted"
    /\ result["c2"] = "StorageError"
    /\ rows_len["c2"] < max_requests_per_ip
    /\ requests = {ClaimedRow("c1")}

\* clear_old_rows has returned (always with an error).
ReaperReturned == reaper_pc \in {"connect_failed", "too_many_failures"}

\* C28 (Old-row reaper retry bound, original statement): clear_old_rows has
\* returned only when the delete has failed more than 5 times in a row.
C28_ReturnsOnlyAfterSixFailures ==
    ReaperReturned => failed_in_a_row > MaxErrorCount

\* C28 (Old-row reaper retry bound): clear_old_rows returns with an error
\* when it cannot connect to the database, before any delete, or when the
\* delete has failed more than 5 times in a row, and in no other case; its
\* count of errors is the number of deletes that failed since the last one
\* that succeeded, so a delete that succeeds sets it to zero, and after a
\* turn that leaves the run of failures at 5 or less the task is in its loop.
C28_ReaperRetryBound ==
    /\ [](/\ error_count = failed_in_a_row
          /\ reaper_pc = "too_many_failures" => failed_in_a_row = MaxErrorCount + 1
          /\ reaper_pc = "connect_failed" => failed_in_a_row = 0
          /\ reaper_pc = "delete" => failed_in_a_row <= MaxErrorCount)
    /\ [][/\ (reaper_pc = "delete" /\ failed_in_a_row' <= MaxErrorCount)
                => reaper_pc' = "delete"
          /\ (reaper_pc = "delete" /\ reaper_pc' = "too_many_failures")
                => (failed_in_a_row = MaxErrorCount /\ requests' = requests)
          /\ ReaperReturned => reaper_pc' = reaper_pc]_vars

\* The reaper has given up after six failures in a row, at a time when the
\* table held a row it had not deleted.
C28_Witness ==
    /\ reaper_pc = "too_many_failures"
    /\ failed_in_a_row = MaxErrorCount + 1
    /\ requests # {}

====
